---- MODULE Spec2Model ----
(***************************************************************************)
(* A model of rust-lexer (src/src/lib.rs): the Lexer over a character      *)
(* source, its whitespace skipping, escape decoding and the token          *)
(* iterator next().                                                        *)
(*                                                                         *)
(* Characters are modelled by short strings: a printable character by      *)
(* itself, and "LF", "CR", "TAB", "NUL", "DQ" (double quote) and "BSL"     *)
(* (backslash) for the others.  A text is a sequence of characters.        *)
(***************************************************************************)
EXTENDS Integers, Sequences, FiniteSets, TLC

VARIABLES input, pos, failAt, lookahead, line, column, pc, results

vars == <<input, pos, failAt, lookahead, line, column, pc, results>>

(***************************************************************************)
(* Bounds of the model.                                                    *)
(***************************************************************************)
\* longest input over the general alphabet
MaxLen == 3
\* longest general input whose source may fail with an I/O error
MaxFailLen == 2
\* longest whitespace-only input
MaxWsLen == 5
\* longest identifier-only input
MaxIdentLen == 4
\* longest input of identifiers, punctuation and whitespace
MaxLayoutLen == 5
\* longest input of the line-comment family
MaxCommentLen == 5
\* longest input of the apostrophe family
MaxQuoteLen == 5
\* longest body of an input that opens a string literal
MaxStringLen == 4
\* longest input of the runs whose progress is examined
MaxLiveLen == 3
\* calls of next() made after it has signalled end-of-input
MaxEndCalls == 2
\* uint arithmetic wraps; the model scales the word down to this modulus
UintModulus == 16

(***************************************************************************)
(* Character classes.                                                      *)
(***************************************************************************)
NUL == "NUL"

\* char::is_whitespace, restricted to the characters of the model
Whitespace == {" ", "TAB", "LF", "CR"}

Letters == {"a", "b", "c", "e", "f", "i", "m", "n", "o", "t", "u", "x"}

\* char::is_xid_start
XidStart == Letters

\* char::is_xid_continue
XidContinue == Letters \cup {"1", "_"}

\* cfg!(lines_start_at_zero): the default build
LinesStartAtZero == FALSE

ColumnReset == IF LinesStartAtZero THEN 0 ELSE 1

Inc(n) == (n + 1) % UintModulus

(***************************************************************************)
(* Results of next(): Some(Ok(token)), Some(Err(e)), None, and a panic.    *)
(***************************************************************************)
Tok(type, val, l, s, e) ==
    [kind |-> "tok", type |-> type, val |-> val, line |-> l, start |-> s,
     end |-> e, desc |-> ""]

Err(ekind, desc) ==
    [kind |-> "err", type |-> ekind, val |-> <<>>, line |-> 0, start |-> 0,
     end |-> 0, desc |-> desc]

None == [kind |-> "none", type |-> "", val |-> <<>>, line |-> 0, start |-> 0,
         end |-> 0, desc |-> ""]

Panic == [kind |-> "panic", type |-> "", val |-> <<>>, line |-> 0, start |-> 0,
          end |-> 0, desc |-> ""]

\* not a result: next() has entered the loop that skips a line comment
InComment == [kind |-> "comment", type |-> "", val |-> <<>>, line |-> 0,
              start |-> 0, end |-> 0, desc |-> ""]

\* the error of the source at its end, and an I/O error of the source
SourceEof == Err("EndOfFile", "end of file")
SourceFailure == Err("OtherIoError", "read failed")

Ret(s, res) == [st |-> s, res |-> res]

(***************************************************************************)
(* The source: read_char() of a Buffer over the text s.src.  The read      *)
(* number s.failAt, if any, fails once with an I/O error.                  *)
(***************************************************************************)
ReadChar(s) ==
    IF s.failAt = s.pos + 1
    THEN [out |-> "err", c |-> NUL, st |-> [s EXCEPT !.failAt = 0]]
    ELSE IF s.pos < Len(s.src)
         THEN [out |-> "ok", c |-> s.src[s.pos + 1],
               st |-> [s EXCEPT !.pos = @ + 1]]
         ELSE [out |-> "eof", c |-> NUL, st |-> s]

\* try!(self.read.read_char()): the end of the source is an error too
ReadError(r) == IF r.out = "eof" THEN SourceEof ELSE SourceFailure

\* the macro proceed!()
Proceed(s) ==
    LET s1 == [s EXCEPT !.col = Inc(@)]
        r == ReadChar(s1)
    IN  CASE r.out = "ok" -> [ok |-> TRUE, st |-> [r.st EXCEPT !.la = r.c]]
          [] r.out = "eof" -> [ok |-> TRUE, st |-> [r.st EXCEPT !.la = NUL]]
          [] OTHER -> [ok |-> FALSE, st |-> r.st]

(***************************************************************************)
(* Lexer::skip_whitespace.  out is "false" for Ok(false), "true" for       *)
(* Ok(true) (the source ended) and "err" for Err(e).                       *)
(***************************************************************************)
RECURSIVE SkipWhitespace(_)
\* SkipTail that does not report the end of the source
SkipTailAtEnd(s) ==
    LET s1 == IF s.la = "LF"
              THEN [s EXCEPT !.line = Inc(@), !.col = ColumnReset]
              ELSE [s EXCEPT !.col = Inc(@)]
        r == ReadChar(s1)
    IN  CASE r.out = "ok" -> SkipWhitespace([r.st EXCEPT !.la = r.c])
          [] r.out = "eof" -> [out |-> "false", st |-> [r.st EXCEPT !.la = NUL]]
          [] OTHER -> [out |-> "err", st |-> r.st]

\* the second half of an iteration of the loop (lines 108-121)
SkipTail(s) ==
    LET s1 == IF s.la = "LF"
              THEN [s EXCEPT !.line = Inc(@), !.col = ColumnReset]
              ELSE [s EXCEPT !.col = Inc(@)]
        r == ReadChar(s1)
    IN  CASE r.out = "ok" -> SkipWhitespace([r.st EXCEPT !.la = r.c])
          [] r.out = "eof" -> [out |-> "true", st |-> [r.st EXCEPT !.la = NUL]]
          [] OTHER -> [out |-> "err", st |-> r.st]

SkipWhitespace(s) ==
    IF s.la \notin Whitespace
    THEN [out |-> "false", st |-> s]
    ELSE IF s.la = "CR"
         THEN LET r == ReadChar(s)
              IN  CASE r.out = "ok" ->
                         LET s1 == [r.st EXCEPT !.la = r.c]
                         IN  IF s1.la # "LF"
                             THEN SkipTail([s1 EXCEPT !.line = Inc(@),
                                                      !.col = ColumnReset])
                             ELSE SkipTail(s1)
                    [] r.out = "eof" ->
                         [out |-> "true", st |-> [r.st EXCEPT !.la = NUL]]
                    [] OTHER -> [out |-> "err", st |-> r.st]
         ELSE SkipTail(s)

(***************************************************************************)
(* Lexer::parsechar: the escape decoder.  out is "ok" with the decoded     *)
(* character c, "err" with the error, or "panic" (unimplemented!()).       *)
(***************************************************************************)
Escapes == {"BSL", "'", "DQ", "n", "t"}

Unescape(c) ==
    CASE c = "BSL" -> "BSL"
      [] c = "'" -> "'"
      [] c = "DQ" -> "DQ"
      [] c = "n" -> "LF"
      [] c = "t" -> "TAB"

UnknownEscape == Err("OtherIoError", "unknown escape sequence starting with '{}'")

ParseChar(s) ==
    IF s.la = "BSL"
    THEN LET r == ReadChar(s)
         IN  IF r.out # "ok"
             THEN [out |-> "err", c |-> NUL, err |-> ReadError(r), st |-> r.st]
             ELSE LET s1 == [r.st EXCEPT !.la = r.c]
                  IN  CASE s1.la = "u" ->
                             [out |-> "panic", c |-> NUL, err |-> Panic, st |-> s1]
                        [] s1.la \in Escapes ->
                             LET r2 == ReadChar(s1)
                                 c == Unescape(s1.la)
                             IN  CASE r2.out = "ok" ->
                                        [out |-> "ok", c |-> c, err |-> None,
                                         st |-> [r2.st EXCEPT !.la = r2.c]]
                                   [] r2.out = "eof" ->
                                        [out |-> "ok", c |-> c, err |-> None,
                                         st |-> [r2.st EXCEPT !.la = NUL]]
                                   [] OTHER ->
                                        [out |-> "err", c |-> NUL,
                                         err |-> SourceFailure, st |-> r2.st]
                        [] OTHER ->
                             [out |-> "err", c |-> NUL, err |-> UnknownEscape,
                              st |-> s1]
    ELSE LET r == ReadChar(s)
         IN  IF r.out # "ok"
             THEN [out |-> "err", c |-> NUL, err |-> ReadError(r), st |-> r.st]
             ELSE [out |-> "ok", c |-> s.la, err |-> None,
                   st |-> [r.st EXCEPT !.la = r.c]]

(***************************************************************************)
(* Iterator::next.  NextBody is the body of next() up to its return, or up *)
(* to the loop that skips a line comment (result InComment).               *)
(***************************************************************************)
\* the second proceed!() of a two-character operator and its token
Complete(s, col, type) ==
    LET p == Proceed(s)
    IN  IF ~p.ok THEN Ret(p.st, SourceFailure)
        ELSE Ret(p.st, Tok(type, <<>>, p.st.line, col, p.st.col))

\* Other(c) after the first proceed!() of an operator prefix
Single(s, col, c) == Ret(s, Tok("Other", <<c>>, s.line, col, s.col))

\* EqBranch that does not know the arrow
EqBranchNoArrow(s) ==
    LET p == Proceed(s)
    IN  IF ~p.ok THEN Ret(p.st, SourceFailure)
        ELSE IF p.st.la = "=" THEN Complete(p.st, s.col, "Equals")
        ELSE Single(p.st, s.col, "=")

\* '=' (lines 178-205)
EqBranch(s) ==
    LET p == Proceed(s)
    IN  IF ~p.ok THEN Ret(p.st, SourceFailure)
        ELSE IF p.st.la = ">" THEN Complete(p.st, s.col, "Arrow")
        ELSE IF p.st.la = "=" THEN Complete(p.st, s.col, "Equals")
        ELSE Single(p.st, s.col, "=")

\* ':' (lines 206-225)
ColonBranch(s) ==
    LET p == Proceed(s)
    IN  IF ~p.ok THEN Ret(p.st, SourceFailure)
        ELSE IF p.st.la = ":" THEN Complete(p.st, s.col, "Scope")
        ELSE Single(p.st, s.col, ":")

\* '!' (lines 226-245)
BangBranch(s) ==
    LET p == Proceed(s)
    IN  IF ~p.ok THEN Ret(p.st, SourceFailure)
        ELSE IF p.st.la = "=" THEN Complete(p.st, s.col, "UnEqual")
        ELSE Single(p.st, s.col, "!")

\* '/' (lines 246-264), up to the loop of line 252
SlashBranch(s) ==
    LET p == Proceed(s)
    IN  IF ~p.ok THEN Ret(p.st, SourceFailure)
        ELSE IF p.st.la = "/"
             THEN LET p2 == Proceed(p.st)
                  IN  IF ~p2.ok THEN Ret(p2.st, SourceFailure)
                      ELSE Ret(p2.st, InComment)
             ELSE Single(p.st, s.col, "/")

\* the loop 'a of the identifier branch (lines 359-376) and its token
RECURSIVE IdentLoop(_, _, _)
\* IdentLoop that ends the identifier at a character that cannot start one
IdentLoopStartOnly(s, id, start) ==
    LET r == ReadChar(s)
    IN  CASE r.out = "ok" ->
               LET s1 == [r.st EXCEPT !.col = Inc(@)]
               IN  IF r.c \in XidStart
                   THEN IdentLoop(s1, Append(id, r.c), start)
                   ELSE Ret([s1 EXCEPT !.la = r.c],
                            Tok("Identifier", id, s1.line, start, s1.col))
          [] r.out = "eof" ->
               Ret([r.st EXCEPT !.la = NUL],
                   Tok("Identifier", id, r.st.line, start, r.st.col))
          [] OTHER -> Ret(r.st, SourceFailure)

IdentLoop(s, id, start) ==
    LET r == ReadChar(s)
    IN  CASE r.out = "ok" ->
               LET s1 == [r.st EXCEPT !.col = Inc(@)]
               IN  IF r.c \in XidContinue
                   THEN IdentLoop(s1, Append(id, r.c), start)
                   ELSE Ret([s1 EXCEPT !.la = r.c],
                            Tok("Identifier", id, s1.line, start, s1.col))
          [] r.out = "eof" ->
               Ret([r.st EXCEPT !.la = NUL],
                   Tok("Identifier", id, r.st.line, start, r.st.col))
          [] OTHER -> Ret(r.st, SourceFailure)

\* identifier (lines 355-384)
IdentBranch(s) == IdentLoop(s, <<s.la>>, s.col)

\* any other character (lines 385-397)
OtherBranch(s) ==
    LET r == ReadChar(s)
        tok == Tok("Other", <<s.la>>, s.line, s.col, s.col + 1)
    IN  CASE r.out = "ok" -> Ret([r.st EXCEPT !.la = r.c], tok)
          [] r.out = "eof" -> Ret([r.st EXCEPT !.la = NUL], tok)
          [] OTHER -> Ret(r.st, SourceFailure)

UnterminatedString == Err("EndOfFile", "End of file while reading string literal")

\* the loop of the string branch (lines 334-339) and what follows it
RECURSIVE StringLoop(_, _, _, _)
StringLoop(s, text, startLine, col) ==
    IF s.la # "DQ" /\ s.la # NUL
    THEN LET d == ParseChar(s)
         IN  CASE d.out = "ok" -> StringLoop(d.st, Append(text, d.c), startLine, col)
               [] OTHER -> Ret(d.st, d.err)
    ELSE IF s.la = NUL
         THEN Ret(s, UnterminatedString)
         ELSE LET p == Proceed(s)
              IN  IF ~p.ok THEN Ret(p.st, SourceFailure)
                  ELSE Ret(p.st, Tok("StringLiteral", text, startLine, col, p.st.col))

\* '"' (lines 329-354)
StringBranch(s) ==
    LET p == Proceed(s)
    IN  IF ~p.ok THEN Ret(p.st, SourceFailure)
        ELSE StringLoop(p.st, <<>>, s.line, s.col)

UnterminatedChar == Err("EndOfFile", "End of file while reading character literal")
UnterminatedCharIdent == Err("EndOfFile", "End of file while reading Character literal")
UnclosedChar == Err("OtherIoError", "unclosed character literal")

\* the character literal that does not start like an identifier (lines 298-327)
CharBranch(s) ==
    LET d == ParseChar(s)
    IN  IF d.out # "ok" THEN Ret(d.st, d.err)
        ELSE CASE d.st.la = NUL -> Ret(d.st, UnterminatedChar)
               [] d.st.la = "'" ->
                    LET p == Proceed(d.st)
                    IN  IF ~p.ok THEN Ret(p.st, SourceFailure)
                        ELSE Ret(p.st, Tok("Char", <<d.c>>, s.line, s.col, d.st.col))
               [] OTHER -> Ret(d.st, UnclosedChar)

\* Disambiguate that takes a lifetime only for a long identifier that no
\* apostrophe follows
DisambiguateBoth(n, col) ==
    CASE n.res.kind = "tok" ->
           IF n.res.type = "Identifier"
           THEN IF Len(n.res.val) > 1 /\ n.st.la # "'"
                THEN Ret(n.st, Tok("Lifetime", n.res.val, n.st.line, col, n.st.col))
                ELSE LET p == Proceed(n.st)
                     IN  IF ~p.ok THEN Ret(p.st, SourceFailure)
                         ELSE Ret(p.st, Tok("Char", <<n.res.val[1]>>, p.st.line,
                                            col, p.st.col))
           ELSE Ret(n.st, Panic)
      [] n.res.kind = "none" -> Ret(n.st, UnterminatedCharIdent)
      [] OTHER -> n

\* what the apostrophe branch makes of the nested next() (lines 269-297)
Disambiguate(n, col) ==
    CASE n.res.kind = "tok" ->
           IF n.res.type = "Identifier"
           THEN IF Len(n.res.val) > 1 \/ n.st.la # "'"
                THEN Ret(n.st, Tok("Lifetime", n.res.val, n.st.line, col, n.st.col))
                ELSE LET p == Proceed(n.st)
                     IN  IF ~p.ok THEN Ret(p.st, SourceFailure)
                         ELSE Ret(p.st, Tok("Char", <<n.res.val[1]>>, p.st.line,
                                            col, p.st.col))
           ELSE Ret(n.st, Panic)
      [] n.res.kind = "none" -> Ret(n.st, UnterminatedCharIdent)
      [] OTHER -> n

RECURSIVE NextBody(_)
\* '\'' (lines 265-328)
QuoteBranch(s) ==
    LET p == Proceed(s)
    IN  IF ~p.ok THEN Ret(p.st, SourceFailure)
        ELSE IF p.st.la \in XidStart \/ p.st.la = "_"
             THEN Disambiguate(NextBody(p.st), s.col)
             ELSE CharBranch(p.st)

\* Dispatch that does not take the underscore for the start of an identifier
DispatchNoUnderscore(s) ==
    CASE s.la = "=" -> EqBranch(s)
      [] s.la = ":" -> ColonBranch(s)
      [] s.la = "!" -> BangBranch(s)
      [] s.la = "/" -> SlashBranch(s)
      [] s.la = "'" -> QuoteBranch(s)
      [] s.la = "DQ" -> StringBranch(s)
      [] OTHER -> IF s.la \in XidStart
                  THEN IdentBranch(s)
                  ELSE OtherBranch(s)

\* the match of line 177
Dispatch(s) ==
    CASE s.la = "=" -> EqBranch(s)
      [] s.la = ":" -> ColonBranch(s)
      [] s.la = "!" -> BangBranch(s)
      [] s.la = "/" -> SlashBranch(s)
      [] s.la = "'" -> QuoteBranch(s)
      [] s.la = "DQ" -> StringBranch(s)
      [] OTHER -> IF s.la \in XidStart \/ s.la = "_"
                  THEN IdentBranch(s)
                  ELSE OtherBranch(s)

\* NextBody without the test of the sentinel of line 169
NextBodyNoSentinel(s) ==
    LET w == SkipWhitespace(s)
    IN  CASE w.out = "false" -> Dispatch(w.st)
          [] w.out = "true" -> Ret(w.st, None)
          [] OTHER -> Ret(w.st, SourceFailure)

NextBody(s) ==
    IF s.la = NUL THEN Ret(s, None)
    ELSE LET w == SkipWhitespace(s)
         IN  CASE w.out = "false" -> Dispatch(w.st)
               [] w.out = "true" -> Ret(w.st, None)
               [] OTHER -> Ret(w.st, SourceFailure)

(***************************************************************************)
(* The inputs: every text up to a bound over a general alphabet, longer    *)
(* texts over the alphabets of particular constructs, and the examples of  *)
(* the documentation.                                                      *)
(***************************************************************************)
Texts(chars, n) == UNION {[1..k -> chars] : k \in 1..n}

GenChars == {"a", "1", " ", "LF", "CR", "=", ">", ":", "!", "/", "'", "DQ",
             "BSL", "(", "NUL"}
WsChars == {" ", "TAB", "LF", "CR"}
IdentChars == {"a", "b", "1", "_"}
LayoutChars == {"a", "(", " ", "LF"}
CommentChars == {"a", "/", " ", "LF", "("}
QuoteChars == {"'", "a", "1", " ", "_"}
StringChars == {"DQ", "a", "n", "u", "BSL", "LF"}

GenInputs == Texts(GenChars, MaxLen)
WsInputs == Texts(WsChars, MaxWsLen)
IdentInputs == Texts(IdentChars, MaxIdentLen)
LayoutInputs == Texts(LayoutChars, MaxLayoutLen)
CommentInputs == Texts(CommentChars, MaxCommentLen)
QuoteInputs == Texts(QuoteChars, MaxQuoteLen)
StringInputs == {<<"DQ">> \o b : b \in Texts(StringChars, MaxStringLen) \cup {<<>>}}

\* fn main() {LF}
ExampleMain == <<"f", "n", " ", "m", "a", "i", "n", "(", ")", " ", "{", "LF", "}">>
\* a // comment LF b
ExampleComment == <<"a", " ", "/", "/", " ", "c", "o", "m", "m", "e", "n", "t",
                    "LF", "b">>
\* "abc
ExampleString == <<"DQ", "a", "b", "c">>

Examples == {ExampleMain, ExampleComment, ExampleString}

Inputs == GenInputs \cup WsInputs \cup IdentInputs \cup LayoutInputs
          \cup CommentInputs \cup QuoteInputs \cup StringInputs \cup Examples

\* the reads of the source that may fail: none, or one after the first
FailPoints(src) ==
    {0} \cup (IF src \in GenInputs /\ Len(src) <= MaxFailLen
              THEN 2..(Len(src) + 1) ELSE {})

(***************************************************************************)
(* The state: the source (input, pos, failAt), the fields of the Lexer,    *)
(* where the caller's call of next() stands (pc), and what next() has      *)
(* returned so far (results).                                              *)
(***************************************************************************)
Cur == [src |-> input, pos |-> pos, failAt |-> failAt, la |-> lookahead,
        line |-> line, col |-> column]

\* the inputs of the runs whose progress is examined
LiveInputs == Texts({"a", "/", " ", "LF"}, MaxLiveLen) \cup {ExampleComment}

\* Lexer::new over a source whose first read succeeds
InitOver(texts) ==
    /\ input \in texts
    /\ failAt \in FailPoints(input)
    /\ pos = 1
    /\ lookahead = input[1]
    /\ line = 1
    /\ column = 1
    /\ pc = "idle"
    /\ results = <<>>

Init == InitOver(Inputs)

EndCalls == Cardinality({i \in DOMAIN results : results[i].kind = "none"})

\* next() returns r.res, or goes on skipping a comment, leaving the Lexer as r.st
Finish(r) ==
    /\ input' = input
    /\ pos' = r.st.pos
    /\ failAt' = r.st.failAt
    /\ lookahead' = r.st.la
    /\ line' = r.st.line
    /\ column' = r.st.col
    /\ pc' = CASE r.res.kind = "comment" -> "comment"
               [] r.res.kind = "panic" -> "panicked"
               [] OTHER -> "idle"
    /\ results' = IF r.res.kind = "comment" THEN results
                  ELSE Append(results, r.res)

\* a call of next(), to its return or into the loop of line 252
Call ==
    /\ pc = "idle"
    /\ EndCalls < MaxEndCalls
    /\ Finish(NextBody(Cur))

\* one iteration of the loop of line 252
CommentStep ==
    /\ pc = "comment"
    /\ lookahead # "LF"
    /\ LET p == Proceed(Cur)
       IN  Finish(Ret(p.st, IF p.ok THEN InComment ELSE SourceFailure))

\* the loop of line 252 ends: self.next() of line 255
CommentEnd ==
    /\ pc = "comment"
    /\ lookahead = "LF"
    /\ Finish(NextBody(Cur))

Next == Call \/ CommentStep \/ CommentEnd

Spec == Init /\ [][Next]_vars

\* the caller keeps calling next(), and a running call keeps running
FairSpec == InitOver(LiveInputs) /\ [][Next]_vars /\ WF_vars(Next)

(***************************************************************************)
(* A whole scan as a function of the text: Lexer::new, then next() until   *)
(* it signals end-of-input, panics, or never returns.                      *)
(***************************************************************************)
\* Lexer::new over a source that does not fail
Start(src) == [src |-> src, pos |-> 1, failAt |-> 0, la |-> src[1],
               line |-> 1, col |-> 1]

Hang == [kind |-> "hang", type |-> "", val |-> <<>>, line |-> 0, start |-> 0,
         end |-> 0, desc |-> ""]

\* next() with the loop of line 252 run to its end; at the end of the source
\* the loop reads nothing new and goes on for ever
RECURSIVE CommentLoop(_)
RECURSIVE NextCall(_)
CommentLoop(s) ==
    IF s.la = "LF" THEN NextCall(s)
    ELSE IF ReadChar(s).out = "eof" THEN Ret(s, Hang)
    ELSE LET p == Proceed(s)
         IN  IF p.ok THEN CommentLoop(p.st) ELSE Ret(p.st, SourceFailure)

NextCall(s) ==
    LET r == NextBody(s)
    IN  IF r.res.kind = "comment" THEN CommentLoop(r.st) ELSE r

\* the results of the calls of next() from s, up to the first that is no
\* token and no error
RECURSIVE Collect(_)
Collect(s) ==
    LET r == NextCall(s)
    IN  IF r.res.kind \in {"tok", "err"}
        THEN <<r.res>> \o Collect(r.st)
        ELSE <<r.res>>

LexAll(src) == IF src = <<>> THEN <<None>> ELSE Collect(Start(src))

(***************************************************************************)
(* Vocabulary of the properties.                                           *)
(***************************************************************************)
Tokens(rs) == SelectSeq(rs, LAMBDA r : r.kind = "tok")

Last(rs) == rs[Len(rs)]

\* next() has signalled end-of-input
Ended == results # <<>> /\ Last(results).kind = "none"

\* the source has not failed and will not
NoFailure == failAt = 0 /\ \A i \in DOMAIN results : results[i] # SourceFailure

AllIn(src, chars) == \A i \in DOMAIN src : src[i] \in chars

\* the Lexer is at character k of the text: it is the lookahead and the last
\* character read; past the end, the lookahead is the sentinel
LookingAt(src, k, p, la) ==
    IF k <= Len(src) THEN p = k /\ la = src[k] ELSE p = Len(src) /\ la = NUL

\* the longest run of identifier characters of src that starts at i
RECURSIVE IdentRun(_, _)
IdentRun(src, i) ==
    IF i < Len(src) /\ src[i + 1] \in XidContinue
    THEN <<src[i]>> \o IdentRun(src, i + 1)
    ELSE <<src[i]>>

(***************************************************************************)
(* C1.  Positions of the tokens of identifiers, punctuation and            *)
(* whitespace.                                                             *)
(***************************************************************************)
Punctuation == {"(", ")", "{", "}"}

LayoutClass == Letters \cup {"_"} \cup Punctuation \cup {" ", "LF"}

\* the tokens the claim describes for the text src from character i on,
\* which is on line l at column c
RECURSIVE LayoutTokens(_, _, _, _)
LayoutTokens(src, i, l, c) ==
    IF i > Len(src) THEN <<>>
    ELSE IF src[i] = " " THEN LayoutTokens(src, i + 1, l, c + 1)
    ELSE IF src[i] = "LF" THEN LayoutTokens(src, i + 1, l + 1, 1)
    ELSE IF src[i] \in XidStart \cup {"_"}
         THEN LET id == IdentRun(src, i)
              IN  <<Tok("Identifier", id, l, c, c + Len(id))>>
                  \o LayoutTokens(src, i + Len(id), l, c + Len(id))
         ELSE <<Tok("Other", <<src[i]>>, l, c, c + 1)>>
              \o LayoutTokens(src, i + 1, l, c + 1)

IsPrefix(a, b) == Len(a) <= Len(b) /\ \A i \in DOMAIN a : a[i] = b[i]

\* C1: over identifiers, single-character punctuation and whitespace, every
\* token returned has line = 1 + the line breaks before it, start = 1 + the
\* characters before it on its line and end = start + the length of its
\* lexeme; fn main() {LF} yields fn 1:1-3, main 1:4-8, ( 1:8-9, ) 1:9-10,
\* { 1:11-12, } 2:1-2.
C1_TokenPositions ==
    (AllIn(input, LayoutClass) /\ NoFailure) =>
        /\ IsPrefix(Tokens(results), LayoutTokens(input, 1, 1, 1))
        /\ Ended => Tokens(results) = LayoutTokens(input, 1, 1, 1)

(***************************************************************************)
(* C2.  A token spans at least one column.                                 *)
(***************************************************************************)
\* C2: every token returned by next() satisfies end > start.
C2_EndAfterStart ==
    \A i \in DOMAIN results :
        results[i].kind = "tok" => results[i].end > results[i].start

(***************************************************************************)
(* C3.  Errors are terminal.                                               *)
(***************************************************************************)
\* C3: once next() has returned an error, every later call returns no token:
\* the caller sees one error and then only end-of-input.
C3_ErrorsTerminal ==
    \A i, j \in DOMAIN results :
        (i < j /\ results[i].kind = "err") => results[j].kind = "none"

(***************************************************************************)
(* C4.  Every call of next() returns.                                      *)
(***************************************************************************)
\* C4: every call of next() terminates; in particular the skipping of a line
\* comment ends, also when the comment ends the input without a line feed.
C4_Termination == (pc = "comment") ~> (pc # "comment")

(***************************************************************************)
(* C5.  An apostrophe followed by an identifier.                           *)
(***************************************************************************)
\* C5: when next() sees an apostrophe followed by an identifier, it returns
\* Char(c) with end - start = 3 exactly when the identifier is the single
\* character c and a closing apostrophe follows it at once, and it consumes
\* that apostrophe; otherwise it returns Lifetime(identifier) that starts at
\* the apostrophe, and the character after the identifier is not consumed: it
\* is the lookahead of the next call.
C5_ApostropheDisambiguation ==
    [][(/\ pc = "idle"
        /\ lookahead = "'"
        /\ failAt = 0
        /\ pos < Len(input)
        /\ input[pos + 1] \in XidStart \cup {"_"})
       => LET id == IdentRun(input, pos + 1)
              after == pos + 1 + Len(id)
              r == Last(results')
          IN  /\ Len(results') = Len(results) + 1
              /\ r.kind = "tok"
              /\ r.val = id
              /\ r.start = column
              /\ IF Len(id) = 1 /\ after <= Len(input) /\ input[after] = "'"
                 THEN /\ r.type = "Char"
                      /\ r.end - r.start = 3
                      /\ LookingAt(input, after + 1, pos', lookahead')
                 ELSE /\ r.type = "Lifetime"
                      /\ LookingAt(input, after, pos', lookahead')]_vars

\* a character literal has been returned and, by the call that started at
\* the character after its closing apostrophe, a lifetime
C5_Witness ==
    /\ Len(results) >= 2
    /\ results[1].type = "Char"
    /\ results[2].type = "Lifetime"

(***************************************************************************)
(* C6.  Whitespace alone yields nothing.                                   *)
(***************************************************************************)
\* C6: over an input of whitespace characters only (space, tab, LF, CRLF,
\* lone CR) the first call of next() signals end-of-input, and no token and
\* no error is ever returned.
C6_WhitespaceOnly ==
    (AllIn(input, Whitespace) /\ NoFailure) =>
        /\ pc = "idle"
        /\ \A i \in DOMAIN results : results[i] = None

\* next() has been called over a text with a lone CR, a CRLF and a space
C6_Witness ==
    /\ input = <<"CR", " ", "CR", "LF", "TAB">>
    /\ Len(results) = MaxEndCalls

(***************************************************************************)
(* C7.  A string literal that is never closed.                             *)
(***************************************************************************)
\* no quote closes the string literal whose body starts at character i
RECURSIVE Unclosed(_, _)
Unclosed(src, i) ==
    IF i > Len(src) THEN TRUE
    ELSE IF src[i] = "DQ" THEN FALSE
    ELSE IF src[i] = "BSL" THEN Unclosed(src, i + 2)
    ELSE Unclosed(src, i + 1)

\* C7: over an input that opens a string literal and never closes it, next()
\* returns the error of the end of input inside a string literal, whatever
\* the characters after the opening quote are.
C7_UnterminatedString ==
    (input[1] = "DQ" /\ Unclosed(input, 2) /\ NoFailure /\ results # <<>>)
        => results[1] = UnterminatedString

(***************************************************************************)
(* C8.  The operator prefixes =, : and !.                                  *)
(***************************************************************************)
\* the operator that c completes after the prefix p, or "" if it does not
Completed(p, c) ==
    CASE p = "=" /\ c = ">" -> "Arrow"
      [] p = "=" /\ c = "=" -> "Equals"
      [] p = ":" /\ c = ":" -> "Scope"
      [] p = "!" /\ c = "=" -> "UnEqual"
      [] OTHER -> ""

\* C8: after a prefix =, : or !, a character that completes the operator
\* makes next() return Arrow, Equals, Scope or UnEqual with end - start = 2;
\* any other character, or the end of input, makes it return Other(prefix)
\* with end - start = 1, and that character stays the lookahead of the next
\* call.
C8_OperatorPrefixes ==
    [][(pc = "idle" /\ lookahead \in {"=", ":", "!"} /\ failAt = 0)
       => LET op == IF pos < Len(input)
                    THEN Completed(lookahead, input[pos + 1]) ELSE ""
              r == Last(results')
          IN  /\ Len(results') = Len(results) + 1
              /\ r.kind = "tok"
              /\ IF op # ""
                 THEN /\ r.type = op
                      /\ r.end - r.start = 2
                      /\ LookingAt(input, pos + 2, pos', lookahead')
                 ELSE /\ r.type = "Other"
                      /\ r.val = <<lookahead>>
                      /\ r.end - r.start = 1
                      /\ LookingAt(input, pos + 1, pos', lookahead')]_vars

\* a prefix alone and then a completed operator have been returned
C8_Witness ==
    /\ Len(results) >= 2
    /\ results[1].type = "Other" /\ results[1].val = <<"=">>
    /\ results[2].type = "Scope"

(***************************************************************************)
(* C9.  Line comments.                                                     *)
(***************************************************************************)
CommentClass == Letters \cup {"/", " ", "LF", "("}

\* the text without the text of its line comments; the line feed stays
RECURSIVE StripComments(_, _, _)
StripComments(src, i, inComment) ==
    IF i > Len(src) THEN <<>>
    ELSE IF inComment
         THEN IF src[i] = "LF"
              THEN <<"LF">> \o StripComments(src, i + 1, FALSE)
              ELSE StripComments(src, i + 1, TRUE)
         ELSE IF src[i] = "/" /\ i < Len(src) /\ src[i + 1] = "/"
              THEN StripComments(src, i + 2, TRUE)
              ELSE <<src[i]>> \o StripComments(src, i + 1, FALSE)

\* C9: a line comment yields no token: the scan of a text ends with the
\* tokens of the text without its comments, a token after the line feed of a
\* comment being on the following line; a // comment LF b yields the
\* identifiers a and b, b on line 2.
C9_CommentElision ==
    <>((AllIn(input, CommentClass) /\ NoFailure) =>
          /\ Ended
          /\ Tokens(results) = Tokens(LexAll(StripComments(input, 1, FALSE))))

WithoutEnd(ts) == [i \in DOMAIN ts |-> [ts[i] EXCEPT !.end = 0]]

\* what holds of the comments nevertheless: but for their end columns, the
\* tokens returned are tokens of the text without its comments, and all of
\* them once the scan has ended
CommentElisionSoFar ==
    (AllIn(input, CommentClass) /\ NoFailure) =>
        LET want == WithoutEnd(Tokens(LexAll(StripComments(input, 1, FALSE))))
        IN  /\ IsPrefix(WithoutEnd(Tokens(results)), want)
            /\ Ended => WithoutEnd(Tokens(results)) = want

(***************************************************************************)
(* C10.  An identifier alone.                                              *)
(***************************************************************************)
IsIdentifier(src) ==
    /\ src[1] \in XidStart \cup {"_"}
    /\ \A i \in 2..Len(src) : src[i] \in XidContinue

\* C10: over an input that is one identifier and nothing else, next()
\* returns one Identifier token whose text is the input, and then
\* end-of-input.
C10_IdentifierRoundTrip ==
    (IsIdentifier(input) /\ NoFailure) =>
        /\ pc = "idle"
        /\ \A i \in DOMAIN results :
              IF i = 1
              THEN /\ results[i].kind = "tok"
                   /\ results[i].type = "Identifier"
                   /\ results[i].val = input
              ELSE results[i] = None

\* an identifier of letters, a digit and an underscore has been scanned to
\* the end of input
C10_Witness ==
    /\ input = <<"_", "a", "1", "b">>
    /\ Len(results) >= 2

(***************************************************************************)
(* C11.  A closed string literal.                                          *)
(***************************************************************************)
\* the character an escape sequence stands for, by its second character
EscapeValue(c) ==
    CASE c = "BSL" -> "BSL"
      [] c = "'" -> "'"
      [] c = "DQ" -> "DQ"
      [] c = "n" -> "LF"
      [] c = "t" -> "TAB"
      [] OTHER -> "?"

\* the place of the quote that closes the string literal whose body starts
\* at character i, or 0 if no quote closes it
RECURSIVE ClosingQuote(_, _)
ClosingQuote(src, i) ==
    IF i > Len(src) THEN 0
    ELSE IF src[i] = "DQ" THEN i
    ELSE IF src[i] = "BSL" THEN ClosingQuote(src, i + 2)
    ELSE ClosingQuote(src, i + 1)

\* the characters i to k - 1 of src hold only escape sequences that exist
RECURSIVE ValidBody(_, _, _)
ValidBody(src, i, k) ==
    IF i >= k THEN TRUE
    ELSE IF src[i] = "BSL"
         THEN src[i + 1] \in {"BSL", "'", "DQ", "n", "t"} /\ ValidBody(src, i + 2, k)
         ELSE ValidBody(src, i + 1, k)

\* the characters i to k - 1 of src, decoded
RECURSIVE DecodedBody(_, _, _)
DecodedBody(src, i, k) ==
    IF i >= k THEN <<>>
    ELSE IF src[i] = "BSL"
         THEN <<EscapeValue(src[i + 1])>> \o DecodedBody(src, i + 2, k)
         ELSE <<src[i]>> \o DecodedBody(src, i + 1, k)

\* C11: for a string literal that is closed, next() returns StringLiteral
\* of the decoded characters between the quotes, with start the column of
\* the opening quote and end one past the column of the closing quote, each
\* source character of the literal counting as one column, so that a token
\* that follows on the line starts at or after end.
C11_StringLiteral ==
    [][LET k == ClosingQuote(input, pos + 1)
           r == Last(results')
       IN  (/\ pc = "idle"
            /\ lookahead = "DQ"
            /\ failAt = 0
            /\ k # 0
            /\ ValidBody(input, pos + 1, k))
           => /\ Len(results') = Len(results) + 1
              /\ r.kind = "tok"
              /\ r.type = "StringLiteral"
              /\ r.val = DecodedBody(input, pos + 1, k)
              /\ r.start = column
              /\ r.end = column + (k - pos) + 1
              /\ column' >= r.end
              /\ LookingAt(input, k + 1, pos', lookahead')]_vars

(***************************************************************************)
(* C12.  Line breaks in whitespace.                                        *)
(***************************************************************************)
\* the line and the column after the whitespace of src from character i on,
\* which is on line l at column c
RECURSIVE AfterWhitespace(_, _, _, _)
AfterWhitespace(src, i, l, c) ==
    IF i > Len(src) THEN <<l, c>>
    ELSE IF src[i] = "CR" /\ i < Len(src) /\ src[i + 1] = "LF"
         THEN AfterWhitespace(src, i + 2, l + 1, ColumnReset)
    ELSE IF src[i] \in {"CR", "LF"}
         THEN AfterWhitespace(src, i + 1, l + 1, ColumnReset)
    ELSE AfterWhitespace(src, i + 1, l, c + 1)

\* C12: over a run of whitespace each CR LF, each CR that no LF follows
\* (also one that another CR follows) and each LF that follows no CR adds
\* one to the line, and every other whitespace character adds one to the
\* column and leaves the line.
C12_LineBreaks ==
    (AllIn(input, Whitespace) /\ NoFailure /\ results # <<>>)
        => <<line, column>> = AfterWhitespace(input, 1, 1, 1)

(***************************************************************************)
(* C13.  The escape decoder.                                               *)
(***************************************************************************)
\* C13: called at a character inside a literal, the escape decoder returns
\* one decoded character and leaves the lookahead after what it decoded: a
\* character other than a backslash stands for itself, a backslash and one
\* of \ ' " n t for backslash, apostrophe, quote, line feed and tab, and a
\* backslash and any other character is an unknown-escape error.
C13_EscapeDecoder ==
    (/\ input[1] = "DQ" /\ Len(input) >= 2 /\ input[2] # "DQ"
     /\ NoFailure /\ results # <<>>) =>
        LET d == ParseChar(Proceed(Start(input)).st)
        IN  IF input[2] # "BSL"
            THEN /\ d.out = "ok"
                 /\ d.c = input[2]
                 /\ LookingAt(input, 3, d.st.pos, d.st.la)
            ELSE IF Len(input) < 3 THEN d.out # "ok"
            ELSE IF EscapeValue(input[3]) # "?"
                 THEN /\ d.out = "ok"
                      /\ d.c = EscapeValue(input[3])
                      /\ LookingAt(input, 4, d.st.pos, d.st.la)
                 ELSE d.out = "err" /\ d.err = UnknownEscape

(***************************************************************************)
(* C14.  An apostrophe that no identifier follows.                         *)
(***************************************************************************)
\* the escape sequence or the character at place k of src can be decoded
Decodable(src, k) ==
    /\ k <= Len(src)
    /\ src[k] = "BSL" => (k < Len(src) /\ EscapeValue(src[k + 1]) # "?")

\* the place after the escape sequence or the character at place k
AfterContent(src, k) == IF src[k] = "BSL" THEN k + 2 ELSE k + 1

\* the input ends inside the character literal whose content is at place k
EndsInside(src, k) ==
    \/ k > Len(src)
    \/ src[k] = "BSL" /\ k = Len(src)
    \/ Decodable(src, k) /\ AfterContent(src, k) > Len(src)

\* C14: when a character that cannot start an identifier follows the
\* apostrophe, next() decodes one character c and returns Char(c), consuming
\* the closing apostrophe, if an apostrophe follows; the error of an unclosed
\* character literal if anything else follows; and an end-of-input error if
\* the input ends inside the literal.  The two errors come with no token.
C14_CharLiteral ==
    [][LET k == pos + 1
           r == Last(results')
       IN  (/\ pc = "idle"
            /\ lookahead = "'"
            /\ failAt = 0
            /\ k <= Len(input) => input[k] \notin XidStart \cup {"_"}
            /\ EndsInside(input, k) \/ Decodable(input, k))
           => /\ Len(results') = Len(results) + 1
              /\ IF EndsInside(input, k)
                 THEN r.kind = "err" /\ r.type = "EndOfFile"
                 ELSE IF input[AfterContent(input, k)] = "'"
                 THEN /\ r.kind = "tok"
                      /\ r.type = "Char"
                      /\ r.val = <<IF input[k] = "BSL"
                                   THEN EscapeValue(input[k + 1])
                                   ELSE input[k]>>
                      /\ LookingAt(input, AfterContent(input, k) + 1,
                                   pos', lookahead')
                 ELSE r = UnclosedChar]_vars

(***************************************************************************)
(* C15.  End-of-input is stable.                                           *)
(***************************************************************************)
\* C15: once next() has signalled end-of-input, every later call signals it
\* again, reads nothing from the source and leaves the lookahead, the line
\* and the column as they are.
C15_EndIsStable ==
    [][Ended => /\ results' = Append(results, None)
                /\ UNCHANGED <<pos, failAt, lookahead, line, column>>]_vars

\* next() has been called again after it signalled the end of an input that
\* held a token and whitespace
C15_Witness ==
    /\ Len(results) >= 3
    /\ results[1].kind = "tok"
    /\ results[2] = None
    /\ results[3] = None
    /\ input[Len(input)] \in Whitespace

(***************************************************************************)
(* C16.  The sentinel of end-of-input.                                     *)
(***************************************************************************)
\* C16: next() signals end-of-input only when the source is exhausted: a
\* NUL character of the input does not end the tokens while characters
\* after it are unread.
C16_SentinelNotConfused ==
    (NoFailure /\ Ended) => pos = Len(input)

(***************************************************************************)
(* C17.  No character is dropped.                                          *)
(***************************************************************************)
\* texts without comments and literals: the lexeme of a token is its text
PlainClass == Letters \cup {"1", "_", "=", ">", ":", "!"} \cup Punctuation
              \cup Whitespace

\* the characters of the source that a token covers
Lexeme(tok) ==
    CASE tok.type = "Arrow" -> <<"=", ">">>
      [] tok.type = "Equals" -> <<"=", "=">>
      [] tok.type = "Scope" -> <<":", ":">>
      [] tok.type = "UnEqual" -> <<"!", "=">>
      [] OTHER -> tok.val

RECURSIVE Lexemes(_)
Lexemes(ts) == IF ts = <<>> THEN <<>> ELSE Lexeme(Head(ts)) \o Lexemes(Tail(ts))

NotWhitespace(src) == SelectSeq(src, LAMBDA c : c \notin Whitespace)

\* C17: when no call returns an error, every character that is neither
\* whitespace nor in a line comment is in the lexeme of exactly one token,
\* in the order of the input; so is the character after a lone CR.
C17_NothingDropped ==
    (/\ AllIn(input, PlainClass)
     /\ NoFailure
     /\ Ended
     /\ \A i \in DOMAIN results : results[i].kind # "err")
        => Lexemes(Tokens(results)) = NotWhitespace(input)

(***************************************************************************)
(* C18.  Tokens do not overlap.                                            *)
(***************************************************************************)
\* C18: of two tokens returned one after the other, the second is on no
\* earlier line than the first and, when on the same line, starts at or
\* after the end of the first.
C18_NoOverlap ==
    \A i \in DOMAIN results :
        (i > 1 /\ results[i - 1].kind = "tok" /\ results[i].kind = "tok")
            => /\ results[i].line >= results[i - 1].line
               /\ results[i].line = results[i - 1].line
                      => results[i].start >= results[i - 1].end

(***************************************************************************)
(* C19.  The nested call of the apostrophe branch.                         *)
(***************************************************************************)
\* a call of next() is about to start or to go on after a comment
CallCanRun ==
    \/ pc = "idle" /\ EndCalls < MaxEndCalls
    \/ pc = "comment" /\ lookahead = "LF"

\* C19: the call of next() that the apostrophe branch makes when the
\* lookahead can start an identifier returns an Identifier token or an error
\* of the source: never end-of-input, never another token; so that branch
\* neither panics nor returns its own end-of-file error.
C19_NestedNext ==
    /\ \A i \in DOMAIN results : results[i] # UnterminatedCharIdent
    /\ (CallCanRun /\ lookahead # NUL) =>
         LET w == SkipWhitespace(Cur)
             p == Proceed(w.st)
             n == NextBody(p.st)
         IN  (/\ w.out = "false"
              /\ w.st.la = "'"
              /\ p.ok
              /\ p.st.la \in XidStart \cup {"_"})
             => \/ n.res.kind = "tok" /\ n.res.type = "Identifier"
                \/ n.res = SourceFailure

\* the apostrophe branch has made its nested call at an underscore, after
\* whitespace, and has returned a lifetime
C19_Witness ==
    /\ Len(input) >= 3
    /\ input[1] = " " /\ input[2] = "'" /\ input[3] = "_"
    /\ Len(results) >= 1
    /\ results[1].type = "Lifetime"

====
